---------------------------- MODULE Spec2Model ----------------------------
(***************************************************************************)
(* A model of the lightyear reliable channel sender                        *)
(* (shared/src/channel/senders/reliable.rs) and of the server multiplexer  *)
(* (server/src/server.rs).                                                 *)
(*                                                                         *)
(* Time is counted in clock units; UnitsPerMilli of them make one          *)
(* millisecond (std::time::Instant is finer than a millisecond, and        *)
(* collect_messages_to_send truncates its resend delay to whole            *)
(* milliseconds).  An Option<T> is a sequence of length at most one.       *)
(***************************************************************************)
EXTENDS Integers, Sequences, FiniteSets, TLC

\* ------------------------------------------------------------------ bounds
\* buffer_send calls made in one run
MaxMsgs == 2
\* last value of the wall clock
MaxTime == 3
\* clock units per millisecond
UnitsPerMilli == 2
\* datagrams in flight between the peers
MaxWire == 2
\* client ids known to the authenticator
MaxClients == 2
\* connect (disconnect) events waiting in the server's channel
MaxEvents == 2
\* datagrams that arrive at the server in one run
MaxArrivals == 2
\* messages the application queues on the server in one run
MaxQueued == 2
\* entities the application spawns
MaxEntities == 2
\* spawns buffered in one connection's replication manager
MaxSpawns == 2
\* frames the client App runs
MaxFrames == 2
\* longest frame delta, in clock units
MaxDelta == 2
\* datagrams that reach the client in one run (that one send produces)
MaxPackets == 2

\* ------------------------------------------------------------- data types
None == <<>>
Some(x) == <<x>>

\* MessageId is a wrapping 16-bit identifier
MessageIdModulus == 65536

\* MessageId += 1
wrapping_add(id, n) == (id + n) % MessageIdModulus

\* signed wrap-around distance from a to b (positive: b is after a)
wrapping_diff(a, b) ==
    LET d == (b - a) % MessageIdModulus
    IN  IF d >= MessageIdModulus \div 2 THEN d - MessageIdModulus ELSE d

\* Ord of MessageId, the key order of the BTreeMap
MessageIdLess(a, b) == wrapping_diff(a, b) > 0

\* MessageContainer<P> { id: Option<MessageId>, payload: P }
MessageContainer(id, payload) == [id |-> id, payload |-> payload]

\* UnackedMessage { message, last_sent: Option<Instant> }
UnackedMessage(message, last_sent) == [message |-> message, last_sent |-> last_sent]

\* ReliableSettings { rtt_resend_factor }: the f32 factor as the fraction num/den
ReliableSettings(num, den) == [rtt_resend_factor |-> [num |-> num, den |-> den]]

\* ------------------------------------------------------ map and queue helpers
\* BTreeMap::insert: a present key is replaced
MapInsert(m, k, v) == [i \in DOMAIN m \cup {k} |-> IF i = k THEN v ELSE m[i]]

\* BTreeMap::remove: an absent key changes nothing
MapRemove(m, k) == [i \in DOMAIN m \ {k} |-> m[i]]

EmptyMap == [i \in {} |-> 0]

\* the keys in the order of their plain 16-bit values
RECURSIVE KeysInOrder_numeric(_)
KeysInOrder_numeric(S) ==
    IF S = {} THEN <<>>
    ELSE LET first == CHOOSE k \in S : \A j \in S \ {k} : k < j
         IN  <<first>> \o KeysInOrder_numeric(S \ {first})

\* the keys of a BTreeMap<MessageId, _> in iteration order, oldest first
RECURSIVE KeysInOrder(_)
KeysInOrder(S) ==
    IF S = {} THEN <<>>
    ELSE LET first == CHOOSE k \in S : \A j \in S \ {k} : MessageIdLess(k, j)
         IN  <<first>> \o KeysInOrder(S \ {first})

SeqRange(q) == {q[i] : i \in DOMAIN q}

\* ------------------------------------------------------------------ state
VARIABLES
    sender,         \* the ReliableSender
    now,            \* Instant::now(): the wall clock
    wire,           \* datagrams sent by the packet manager, not yet arrived
    acks,           \* MessageIds acknowledged by the peer, ack not yet arrived
    received_ids,   \* receiver: ids already delivered upstream
    delivered,      \* receiver: payloads delivered to the application
    buffered,       \* number of buffer_send calls made
    sent_packets,   \* PacketManager: the MessageIds of the datagrams it has finished
    user_connections, \* Server: HashMap<ClientId, Connection<P>>
    netcode,        \* Server: the netcode server (the authenticator)
    context,        \* Server: ServerContext, the receivers of the two event channels
    io,             \* Server: the transport, datagrams arrived and datagrams sent
    panicked,       \* Server: a panic unwound the thread that runs the server
    arrivals,       \* number of datagrams that have arrived at the server
    queued,         \* number of messages queued by Server::buffer_send
    client,         \* the client App: its resources and the position of its frame
    world,          \* the example server's World: entities, events, commands
    last_call       \* the operation that made the last step, and its argument

sender_vars == <<sender, now, wire, acks, received_ids, delivered, buffered, sent_packets>>

server_vars == <<user_connections, netcode, context, io, panicked, arrivals, queued>>

vars == <<sender_vars, server_vars, client, world, last_call>>

Call(op, arg) == [op |-> op, arg |-> arg]

\* a call that acknowledges message id; repeat: the step before was the same call
AckCall(op, id) ==
    [op |-> op, arg |-> id, repeat |-> (last_call.op = op /\ last_call.arg = id)]

\* ------------------------------------------------------- ReliableSender
\* ReliableSender::new
ReliableSender_new(reliable_settings, instant_now) ==
    [ reliable_settings    |-> reliable_settings,
      unacked_messages     |-> EmptyMap,
      next_send_message_id |-> 0,
      messages_to_send     |-> <<>>,
      message_ids_to_send  |-> {},
      current_rtt_millis   |-> 0,
      current_time         |-> instant_now ]

\* ReliableSender::process_message_ack
process_message_ack(s, message_id) ==
    IF message_id \in DOMAIN s.unacked_messages
    THEN [s EXCEPT !.unacked_messages = MapRemove(@, message_id)]
    ELSE s

\* buffer_send that leaves next_send_message_id as it is
buffer_send_same_id(s, message) ==
    [s EXCEPT
        !.unacked_messages = MapInsert(@, s.next_send_message_id,
                                       UnackedMessage(message, None))]

\* ReliableSender::buffer_send
buffer_send(s, message) ==
    [s EXCEPT
        !.unacked_messages = MapInsert(@, s.next_send_message_id,
                                       UnackedMessage(message, None)),
        !.next_send_message_id = wrapping_add(@, 1)]

\* PacketManager::pack_messages_within_channel: the first `fits` messages are
\* packed; the rest is returned with the ids of the packed ones
pack_messages_within_channel(messages, fits) ==
    [ remaining |-> SubSeq(messages, fits + 1, Len(messages)),
      packed    |-> SubSeq(messages, 1, fits),
      sent_message_ids |-> {messages[i].id[1] : i \in 1..fits} ]

\* PacketManager::finish_packet: the ids of the packed messages are recorded in
\* sent_packets
finish_packet(sp, r) == sp \cup r.sent_message_ids

\* send_packet that forgets every queued id, packed or not
send_packet_forget_queued(s, fits) ==
    LET r == pack_messages_within_channel(s.messages_to_send, fits)
    IN  [s EXCEPT !.messages_to_send = r.remaining,
                  !.message_ids_to_send = {}]

\* send_packet that leaves message_ids_to_send as it is
send_packet_keep_ids(s, fits) ==
    LET r == pack_messages_within_channel(s.messages_to_send, fits)
    IN  [s EXCEPT !.messages_to_send = r.remaining]

\* ReliableSender::send_packet
send_packet(s, fits) ==
    LET r == pack_messages_within_channel(s.messages_to_send, fits)
    IN  [s EXCEPT !.messages_to_send = r.remaining,
                  !.message_ids_to_send = @ \ r.sent_message_ids]

\* (rtt_resend_factor * current_rtt_millis) as u64, as a Duration in clock units
resend_delay(s) ==
    LET f == s.reliable_settings.rtt_resend_factor
    IN  ((f.num * s.current_rtt_millis) \div f.den) * UnitsPerMilli

\* self.current_time - last_sent > resend_delay, strictly
should_send_ge(s, message) ==
    \/ message.last_sent = None
    \/ s.current_time - message.last_sent[1] >= resend_delay(s)

\* the match on message.last_sent in collect_messages_to_send
should_send(s, message) ==
    \/ message.last_sent = None
    \/ s.current_time - message.last_sent[1] > resend_delay(s)

\* the loop body without the message_ids_to_send test
collect_one_unguarded(s, message_id) ==
    LET um == s.unacked_messages[message_id]
        m  == [um.message EXCEPT !.id = Some(message_id)]
    IN  IF should_send(s, um)
        THEN [s EXCEPT
                !.unacked_messages[message_id] = UnackedMessage(m, Some(s.current_time)),
                !.messages_to_send = Append(@, m),
                !.message_ids_to_send = @ \cup {message_id}]
        ELSE s

\* the loop body of collect_messages_to_send for one unacked message
collect_one(s, message_id) ==
    LET um == s.unacked_messages[message_id]
        m  == [um.message EXCEPT !.id = Some(message_id)]
    IN  IF should_send(s, um)
        THEN IF message_id \notin s.message_ids_to_send
             THEN [s EXCEPT
                     !.unacked_messages[message_id] =
                         UnackedMessage(m, Some(s.current_time)),
                     !.messages_to_send = Append(@, m),
                     !.message_ids_to_send = @ \cup {message_id}]
             ELSE [s EXCEPT !.unacked_messages[message_id].message = m]
        ELSE s

RECURSIVE collect_loop(_, _)
collect_loop(s, keys) ==
    IF keys = <<>> THEN s
    ELSE collect_loop(collect_one(s, Head(keys)), Tail(keys))

\* ReliableSender::collect_messages_to_send
collect_messages_to_send(s) ==
    collect_loop(s, KeysInOrder(DOMAIN s.unacked_messages))

\* an acknowledgement taken as cumulative: every id up to message_id is removed
notify_message_delivered_cumulative(s, message_id) ==
    [s EXCEPT !.unacked_messages =
        [i \in {j \in DOMAIN @ : j > message_id} |-> @[i]]]

\* an acknowledgement that also takes the message out of the send queue
notify_message_delivered_purge(s, message_id) ==
    [s EXCEPT !.unacked_messages = MapRemove(@, message_id),
              !.messages_to_send =
                  SelectSeq(@, LAMBDA m : m.id /= Some(message_id)),
              !.message_ids_to_send = @ \ {message_id}]

\* an acknowledgement that is ignored
notify_message_delivered_noop(s, message_id) == s

\* ReliableSender::notify_message_delivered
notify_message_delivered(s, message_id) ==
    [s EXCEPT !.unacked_messages = MapRemove(@, message_id)]

\* ReliableSender::has_messages_to_send
has_messages_to_send(s) == s.messages_to_send /= <<>>


\* ------------------------------------------------------- inputs of the model
\* rtt_resend_factor: 1.0 and 1.5 (the unit test uses 1.5)
FactorValues == {ReliableSettings(1, 1), ReliableSettings(3, 2)}

\* current_rtt_millis set by the unit test's struct literal (whole milliseconds)
RttValues == {0, 1}

\* the id the caller's container holds when it is handed to buffer_send
CallerIds == {None, Some(7)}

\* next_send_message_id of a sender built by a struct literal: a fresh one, and
\* one that has already assigned every id below 2^16 - 1
StartIds == {0, MessageIdModulus - 1}

\* the ids an acknowledgement may name: assigned ones, and ones never assigned
AckIds == {MessageIdModulus - 1} \cup (0 .. MaxMsgs)

RemoveAt(q, i) == SubSeq(q, 1, i - 1) \o SubSeq(q, i + 1, Len(q))

\* ------------------------------------------------- the peer and the network
\* the receiver of the channel: a message whose id was already delivered
\* upstream is dropped, the others are delivered in arrival order
RECURSIVE receive(_, _, _)
receive(datagram, ids, out) ==
    IF datagram = <<>> THEN [received_ids |-> ids, delivered |-> out]
    ELSE LET m == Head(datagram)
         IN  IF m.id[1] \in ids
             THEN receive(Tail(datagram), ids, out)
             ELSE receive(Tail(datagram), ids \cup {m.id[1]}, Append(out, m.payload))

\* ---------------------------------------------------------------- actions
\* ChannelSend::buffer_send, called by the application
BufferSend(caller_id) ==
    /\ buffered < MaxMsgs
    /\ sender' = buffer_send(sender, MessageContainer(caller_id, buffered + 1))
    /\ buffered' = buffered + 1
    /\ last_call' = Call("buffer_send", buffered + 1)
    /\ UNCHANGED <<sent_packets, now, wire, acks, received_ids, delivered>>
    /\ UNCHANGED <<server_vars, client, world>>

\* the messages a call of collect_messages_to_send queues again: sent before,
\* and appended to messages_to_send by this call
Resent(s) ==
    {id \in DOMAIN s.unacked_messages :
        /\ s.unacked_messages[id].last_sent /= None
        /\ Len(SelectSeq(collect_messages_to_send(s).messages_to_send,
                         LAMBDA m : m.id = Some(id)))
               > Len(SelectSeq(s.messages_to_send, LAMBDA m : m.id = Some(id)))}

\* ChannelSend::collect_messages_to_send
Collect ==
    /\ sender' = collect_messages_to_send(sender)
    /\ last_call' = Call("collect_messages_to_send", Cardinality(Resent(sender)))
    /\ UNCHANGED <<sent_packets, now, wire, acks, received_ids, delivered, buffered>>
    /\ UNCHANGED <<server_vars, client, world>>

\* ChannelSend::send_packet; the packed messages leave as one datagram
SendPacket(fits) ==
    /\ fits \in 0 .. Len(sender.messages_to_send)
    /\ fits > 0 => Len(wire) < MaxWire
    /\ sender' = send_packet(sender, fits)
    /\ wire' = IF fits > 0
               THEN Append(wire,
                        pack_messages_within_channel(sender.messages_to_send, fits).packed)
               ELSE wire
    /\ sent_packets' = finish_packet(sent_packets,
                            pack_messages_within_channel(sender.messages_to_send, fits))
    /\ last_call' = Call("send_packet", fits)
    /\ UNCHANGED <<now, acks, received_ids, delivered, buffered>>
    /\ UNCHANGED <<server_vars, client, world>>

\* the network loses a datagram
Lose(i) ==
    /\ i \in DOMAIN wire
    /\ wire' = RemoveAt(wire, i)
    /\ last_call' = Call("lose", i)
    /\ UNCHANGED <<sent_packets, sender, now, acks, received_ids, delivered, buffered>>
    /\ UNCHANGED <<server_vars, client, world>>

\* a datagram arrives at the peer, which acknowledges its messages
Deliver(i) ==
    /\ i \in DOMAIN wire
    /\ LET r == receive(wire[i], received_ids, delivered)
       IN  /\ received_ids' = r.received_ids
           /\ delivered' = r.delivered
    /\ acks' = acks \cup {wire[i][j].id[1] : j \in DOMAIN wire[i]}
    /\ wire' = RemoveAt(wire, i)
    /\ last_call' = Call("deliver", i)
    /\ UNCHANGED <<sent_packets, sender, now, buffered>>
    /\ UNCHANGED <<server_vars, client, world>>

\* the acknowledgement of a message arrives: notify_message_delivered
AckArrive(id) ==
    /\ id \in acks
    /\ sender' = notify_message_delivered(sender, id)
    /\ acks' = acks \ {id}
    /\ last_call' = AckCall("notify_message_delivered", id)
    /\ UNCHANGED <<sent_packets, now, wire, received_ids, delivered, buffered>>
    /\ UNCHANGED <<server_vars, client, world>>

\* the acknowledgement of a message is lost
AckLost(id) ==
    /\ id \in acks
    /\ acks' = acks \ {id}
    /\ last_call' = Call("ack_lost", id)
    /\ UNCHANGED <<sent_packets, sender, now, wire, received_ids, delivered, buffered>>
    /\ UNCHANGED <<server_vars, client, world>>

\* the wall clock advances; nothing hands the new instant to the sender
Tick ==
    /\ now < MaxTime
    /\ now' = now + 1
    /\ last_call' = Call("tick", now + 1)
    /\ UNCHANGED <<sent_packets, sender, wire, acks, received_ids, delivered, buffered>>
    /\ UNCHANGED <<server_vars, client, world>>

\* the unit test: send_packet with a packet manager of its own
TestSendPacket(fits) ==
    /\ fits \in 0 .. Len(sender.messages_to_send)
    /\ sender' = send_packet(sender, fits)
    /\ sent_packets' = finish_packet(sent_packets,
                            pack_messages_within_channel(sender.messages_to_send, fits))
    /\ last_call' = Call("send_packet", fits)
    /\ UNCHANGED <<now, wire, acks, received_ids, delivered, buffered>>
    /\ UNCHANGED <<server_vars, client, world>>

\* the unit test: MockClock::advance(d); sender.current_time = Instant::now()
TestAdvance(d) ==
    /\ now + d <= MaxTime
    /\ now' = now + d
    /\ sender' = [sender EXCEPT !.current_time = now + d]
    /\ last_call' = Call("advance", d)
    /\ UNCHANGED <<sent_packets, wire, acks, received_ids, delivered, buffered>>
    /\ UNCHANGED <<server_vars, client, world>>

\* the unit test: sender.process_message_ack(MessageId(id))
TestProcessMessageAck(id) ==
    /\ sender' = process_message_ack(sender, id)
    /\ last_call' = AckCall("process_message_ack", id)
    /\ UNCHANGED <<sent_packets, now, wire, acks, received_ids, delivered, buffered>>
    /\ UNCHANGED <<server_vars, client, world>>

\* notify_message_delivered with any id, as the packet manager may call it
TestNotify(id) ==
    /\ sender' = notify_message_delivered(sender, id)
    /\ last_call' = AckCall("notify_message_delivered", id)
    /\ UNCHANGED <<sent_packets, now, wire, acks, received_ids, delivered, buffered>>
    /\ UNCHANGED <<server_vars, client, world>>

\* ------------------------------------------------------------------ Server
Clients == 1 .. MaxClients

\* Connection::new: the message manager's received and outgoing buffers, and
\* the spawns buffered in the replication manager
Connection_new == [received |-> <<>>, outgoing |-> <<>>, spawns |-> <<>>]

\* Server::new: no connection, both event channels empty
Server_new ==
    [ user_connections |-> EmptyMap,
      context |-> [connections |-> <<>>, disconnections |-> <<>>] ]

\* netcode.client_addr(client_idx): None for a client that is not connected
client_addr(nc, client_idx) ==
    IF client_idx \in nc.clients THEN Some(client_idx) ELSE None

\* Server::update, "handle connections": the loop over connections.try_iter()
RECURSIVE handle_connections(_, _, _)
handle_connections(uc, events, nc) ==
    IF events = <<>> THEN [user_connections |-> uc, panicked |-> FALSE]
    ELSE IF client_addr(nc, Head(events)) = None
         THEN [user_connections |-> uc, panicked |-> TRUE]
         ELSE handle_connections(MapInsert(uc, Head(events), Connection_new),
                                 Tail(events), nc)

\* Server::update, "handle disconnections": the loop over disconnections.try_iter()
RECURSIVE handle_disconnections(_, _)
handle_disconnections(uc, events) ==
    IF events = <<>> THEN uc
    ELSE handle_disconnections(MapRemove(uc, Head(events)), Tail(events))

\* Server::update
update(uc, ctx, nc, try_update_ok) ==
    IF ~try_update_ok
    THEN [user_connections |-> uc, context |-> ctx, panicked |-> FALSE, result |-> "Err"]
    ELSE LET c == handle_connections(uc, ctx.connections, nc)
         IN  IF c.panicked
             THEN [user_connections |-> c.user_connections,
                   context |-> [ctx EXCEPT !.connections = <<>>],
                   panicked |-> TRUE, result |-> "panic"]
             ELSE [user_connections |->
                       handle_disconnections(c.user_connections, ctx.disconnections),
                   context |-> [connections |-> <<>>, disconnections |-> <<>>],
                   panicked |-> FALSE, result |-> "Ok"]

\* buffer_send that opens a connection for a client that has none
Server_buffer_send_or_insert(uc, client_id, message) ==
    [user_connections |->
         MapInsert(uc, client_id,
                   [(IF client_id \in DOMAIN uc THEN uc[client_id] ELSE Connection_new)
                        EXCEPT !.outgoing = Append(@, message)]),
     result |-> "Ok"]

\* Server::buffer_send
Server_buffer_send(uc, client_id, message) ==
    IF client_id \in DOMAIN uc
    THEN [user_connections |-> [uc EXCEPT ![client_id].outgoing = Append(@, message)],
          result |-> "Ok"]
    ELSE [user_connections |-> uc, result |-> "Err"]

\* Server::recv_packets: the loop over netcode.recv()
RECURSIVE recv_packets(_, _)
recv_packets(uc, incoming) ==
    IF incoming = <<>>
    THEN [user_connections |-> uc, incoming |-> incoming, result |-> "Ok"]
    ELSE LET d == Head(incoming)
         IN  IF d.client \notin DOMAIN uc
             THEN [user_connections |-> uc, incoming |-> Tail(incoming),
                   result |-> "Err"]
             ELSE IF ~d.well_formed
             THEN [user_connections |-> uc, incoming |-> Tail(incoming),
                   result |-> "Err"]
             ELSE recv_packets([uc EXCEPT ![d.client].received = Append(@, d.payload)],
                               Tail(incoming))

Datagram(client_idx, payload) == [client |-> client_idx, payload |-> payload]

\* Server::send_packets: the loop over user_connections.iter_mut(), in the order
\* the HashMap yields them; the fail-th call of netcode.send fails (0: none does)
RECURSIVE send_packets(_, _, _, _, _)
send_packets(uc, sent, order, done, fail) ==
    IF order = <<>>
    THEN [user_connections |-> uc, sent |-> sent, result |-> "Ok"]
    ELSE LET c == Head(order)
             packets == uc[c].outgoing
             drained == [uc EXCEPT ![c].outgoing = <<>>]
             n == Len(packets)
         IN  IF fail \in (done + 1) .. (done + n)
             THEN [user_connections |-> drained,
                   sent |-> sent \o [i \in 1 .. (fail - done - 1) |->
                                        Datagram(c, packets[i])],
                   result |-> "Err"]
             ELSE send_packets(drained,
                               sent \o [i \in 1 .. n |-> Datagram(c, packets[i])],
                               Tail(order), done + n, fail)

\* the orders in which a HashMap with the key set S may be iterated
Orders(S) ==
    {f \in [1 .. Cardinality(S) -> S] : \A i, j \in DOMAIN f : f[i] = f[j] => i = j}

\* Server::client_ids: the ids the netcode server reports as connected
client_ids(nc) == nc.clients

\* ReplicationTarget
All == [kind |-> "All", client_id |-> 0]
AllExcept(client_id) == [kind |-> "AllExcept", client_id |-> client_id]
Only(client_id) == [kind |-> "Only", client_id |-> client_id]

\* entity_spawn, the closure buffer_message: get_mut(&client_id).expect(..)
buffer_message(uc, client_id, entity) ==
    IF client_id \in DOMAIN uc
    THEN [user_connections |-> [uc EXCEPT ![client_id].spawns = Append(@, entity)],
          panicked |-> FALSE]
    ELSE [user_connections |-> uc, panicked |-> TRUE]

\* entity_spawn: for client_id in client_ids { buffer_message(client_id, ..) }
RECURSIVE buffer_messages(_, _, _)
buffer_messages(uc, ids, entity) ==
    IF ids = <<>> THEN [user_connections |-> uc, panicked |-> FALSE]
    ELSE LET r == buffer_message(uc, Head(ids), entity)
         IN  IF r.panicked THEN r
             ELSE buffer_messages(r.user_connections, Tail(ids), entity)

\* the ids the match on replicate.target collects
target_client_ids(nc, target) ==
    CASE target.kind = "All" -> client_ids(nc)
      [] target.kind = "AllExcept" -> {id \in client_ids(nc) : id /= target.client_id}
      [] OTHER -> {target.client_id}

\* Server::entity_spawn; order: the order in which client_ids yields the ids
entity_spawn(uc, nc, entity, target, order) ==
    buffer_messages(uc, order, entity)

Targets == {All} \cup {AllExcept(c) : c \in Clients} \cup {Only(c) : c \in Clients}

\* ---------------------------------------------------------- Server actions
\* the authenticator accepts a client: on_connect sends its id into the channel
AuthConnect(c) ==
    /\ ~panicked
    /\ c \notin netcode.clients
    /\ Len(context.connections) < MaxEvents
    /\ netcode' = [netcode EXCEPT !.clients = @ \cup {c}]
    /\ context' = [context EXCEPT !.connections = Append(@, c)]
    /\ last_call' = Call("on_connect", c)
    /\ UNCHANGED <<user_connections, io, panicked, arrivals, queued>>
    /\ UNCHANGED <<sender_vars, client, world>>

\* the authenticator drops a client: on_disconnect sends its id into the channel
AuthDisconnect(c) ==
    /\ ~panicked
    /\ c \in netcode.clients
    /\ Len(context.disconnections) < MaxEvents
    /\ netcode' = [netcode EXCEPT !.clients = @ \ {c}]
    /\ context' = [context EXCEPT !.disconnections = Append(@, c)]
    /\ last_call' = Call("on_disconnect", c)
    /\ UNCHANGED <<user_connections, io, panicked, arrivals, queued>>
    /\ UNCHANGED <<sender_vars, client, world>>

\* Server::update
Update(try_update_ok) ==
    /\ ~panicked
    /\ LET r == update(user_connections, context, netcode, try_update_ok)
       IN  /\ user_connections' = r.user_connections
           /\ context' = r.context
           /\ panicked' = r.panicked
           /\ last_call' = Call("update", r.result)
    /\ UNCHANGED <<netcode, io, arrivals, queued>>
    /\ UNCHANGED <<sender_vars, client, world>>

\* a datagram of a connected client reaches the transport
Arrive(c, well_formed) ==
    /\ ~panicked
    /\ c \in netcode.clients
    /\ arrivals < MaxArrivals
    /\ io' = [io EXCEPT !.incoming =
                 Append(@, [client |-> c, well_formed |-> well_formed,
                            payload |-> arrivals + 1])]
    /\ arrivals' = arrivals + 1
    /\ last_call' = Call("arrive", c)
    /\ UNCHANGED <<user_connections, netcode, context, panicked, queued>>
    /\ UNCHANGED <<sender_vars, client, world>>

\* Server::recv_packets
RecvPackets ==
    /\ ~panicked
    /\ LET r == recv_packets(user_connections, io.incoming)
       IN  /\ user_connections' = r.user_connections
           /\ io' = [io EXCEPT !.incoming = r.incoming]
           /\ last_call' = Call("recv_packets", r.result)
    /\ UNCHANGED <<netcode, context, panicked, arrivals, queued>>
    /\ UNCHANGED <<sender_vars, client, world>>

\* Server::buffer_send, called by the application
ServerBufferSend(c) ==
    /\ ~panicked
    /\ queued < MaxQueued
    /\ LET r == Server_buffer_send(user_connections, c, queued + 1)
       IN  /\ user_connections' = r.user_connections
           /\ queued' = IF r.result = "Ok" THEN queued + 1 ELSE queued
           /\ last_call' = [op |-> "Server_buffer_send", arg |-> r.result,
                            client_id |-> c]
    /\ UNCHANGED <<netcode, context, io, panicked, arrivals>>
    /\ UNCHANGED <<sender_vars, client, world>>

\* Server::send_packets
SendPackets(order, fail) ==
    /\ ~panicked
    /\ order \in Orders(DOMAIN user_connections)
    /\ LET r == send_packets(user_connections, io.sent, order, 0, fail)
       IN  /\ user_connections' = r.user_connections
           /\ io' = [io EXCEPT !.sent = r.sent]
           /\ last_call' = Call("send_packets", r.result)
    /\ UNCHANGED <<netcode, context, panicked, arrivals, queued>>
    /\ UNCHANGED <<sender_vars, client, world>>

\* Server::entity_spawn, called by the application
EntitySpawn(entity, target, order) ==
    /\ ~panicked
    /\ order \in Orders(target_client_ids(netcode, target))
    /\ \A c \in DOMAIN user_connections : Len(user_connections[c].spawns) < MaxSpawns
    /\ LET r == entity_spawn(user_connections, netcode, entity, target, order)
       IN  /\ user_connections' = r.user_connections
           /\ panicked' = r.panicked
    /\ last_call' = Call("entity_spawn", [entity |-> entity, target |-> target])
    /\ UNCHANGED <<netcode, context, io, arrivals, queued>>
    /\ UNCHANGED <<sender_vars, client, world>>

\* ------------------------------------------------------------- client App
\* the record the frame keeps of what ran in it
Frame_new ==
    [ phases |-> <<>>, connection_updates |-> 0, tick_events |-> 0,
      prediction_updates |-> 0, speed_sets |-> 0, replication_buffered |-> 0,
      packets |-> 0,        \* datagrams returned by connection.send_packets
      sent |-> 0,           \* datagrams handed to netcode.send
      transported |-> <<>>, \* datagrams netcode.send accepted, in order
      send_errors |-> {} ]  \* datagrams whose netcode.send error was logged

\* the App before ClientNetworkingPlugin::build: the resources the systems use
App_new(unified, delay) ==
    [ config       |-> [unified |-> unified, interpolation_delay |-> delay],
      built        |-> FALSE,
      systems      |-> {},
      schedule     |-> "Last",
      done         |-> {},
      frames       |-> 0,
      virtual_delta |-> 0,
      time_manager |-> [current_time |-> 0, delta |-> 0, ready_to_send |-> FALSE],
      netcode      |-> [connected |-> FALSE, incoming |-> <<>>],
      sync_manager |-> [ synced |-> FALSE, interpolation_time |-> 0,
                         duration_since_latest_received_server_tick |-> 0 ],
      frame        |-> Frame_new,
      arrived      |-> 0,
      init_interpolation_time |-> 0,
      deltas       |-> 0,
      panicked     |-> FALSE ]

\* the schedule a system is added to by add_systems
ScheduleOf(system) ==
    IF system \in {"receive", "apply_deferred"} THEN "PreUpdate" ELSE "PostUpdate"

\* the system set a system is put in by in_set
InSet(system) ==
    CASE system = "receive" -> "Receive"
      [] system = "apply_deferred" -> "ReceiveFlush"
      [] system = "send" -> "Send"
      [] OTHER -> "Sync"

\* configure_sets without the chain of Sync and Send
SetOrder_unchained == {<<"Receive", "ReceiveFlush">>}

\* configure_sets: the two .chain() calls
SetOrder == {<<"Receive", "ReceiveFlush">>, <<"Sync", "Send">>}

\* the executor may start a system once every system of a set ordered before
\* its own has run or was skipped in this run of the schedule
CanRun(c, system) ==
    /\ c.built
    /\ ~c.panicked
    /\ system \in c.systems
    /\ ScheduleOf(system) = c.schedule
    /\ system \notin c.done
    /\ \A other \in c.systems :
          (ScheduleOf(other) = c.schedule /\ <<InSet(other), InSet(system)>> \in SetOrder)
          => other \in c.done

\* the system ran: it is done, and its set is noted in the frame
Ran(c, system) ==
    [c EXCEPT !.done = @ \cup {system},
              !.frame.phases = Append(@, InSet(system))]

\* the run condition did not hold: the system is skipped
Skipped(c, system) == [c EXCEPT !.done = @ \cup {system}]

\* TimeManager::update(delta); fires: the send timer has reached send_interval
time_manager_update(tm, delta, fires) ==
    [ current_time |-> tm.current_time + delta, delta |-> delta,
      ready_to_send |-> fires ]

\* is_client_ready_to_send
is_client_ready_to_send(c) == c.time_manager.ready_to_send

\* is_client_connected
is_client_connected(c) == c.netcode.connected

\* unified_sync_init
unified_sync_init(c) ==
    [c EXCEPT !.sync_manager.synced = TRUE,
              !.sync_manager.interpolation_time =
                  c.time_manager.current_time - c.config.interpolation_delay]

\* build in unified mode without the run of unified_sync_init
build_without_init(c) ==
    IF c.config.unified
    THEN [c EXCEPT !.built = TRUE,
                   !.systems = {"receive", "apply_deferred", "send",
                                "unified_sync_update"}]
    ELSE [c EXCEPT !.built = TRUE,
                   !.systems = {"receive", "apply_deferred", "send", "sync_update"}]

\* ClientNetworkingPlugin::build
build(c) ==
    IF c.config.unified
    THEN [unified_sync_init(c) EXCEPT
              !.built = TRUE,
              !.systems = {"receive", "apply_deferred", "send", "unified_sync_update"}]
    ELSE [c EXCEPT !.built = TRUE,
                   !.systems = {"receive", "apply_deferred", "send", "sync_update"}]

\* connection.update(time_manager, tick_manager)
connection_update(c) == [c EXCEPT !.frame.connection_updates = @ + 1]

\* receive without the test of netcode.is_connected()
receive_connection_update_always(c) == connection_update(c)

\* receive: the connection is only advanced once the client is connected
receive_connection_update(c) ==
    IF c.netcode.connected THEN connection_update(c) ELSE c

\* receive: while let Some(packet) = netcode.recv() { recv_packet(packet).unwrap() }
RECURSIVE receive_recv_packets(_)
receive_recv_packets(c) ==
    IF c.netcode.incoming = <<>> THEN c
    ELSE LET packet == Head(c.netcode.incoming)
             taken == [c EXCEPT !.netcode.incoming = Tail(@)]
         IN  IF packet.well_formed
             THEN receive_recv_packets(taken)
             ELSE [taken EXCEPT !.panicked = TRUE]

\* the receive system; connected: what netcode reports after try_update (an
\* error of try_update is logged)
client_receive(c, fires, connected) ==
    LET timed == IF c.config.unified THEN c
                 ELSE [c EXCEPT !.time_manager =
                          time_manager_update(@, c.virtual_delta, fires)]
        polled == [timed EXCEPT !.netcode.connected = connected]
    IN  receive_recv_packets(receive_connection_update(polled))

\* let _ = netcode.send(packet_byte.as_slice()).map_err(|e| error!(..))
netcode_send(frame, packet, fails) ==
    [frame EXCEPT !.sent = @ + 1,
                  !.transported = IF fails THEN @ ELSE Append(@, packet),
                  !.send_errors = IF fails THEN @ \cup {packet} ELSE @]

\* a loop that gives up at the first datagram the transport refuses
RECURSIVE client_send_loop_until_error(_, _, _, _)
client_send_loop_until_error(frame, packet, n, fail) ==
    IF packet > n THEN frame
    ELSE IF packet = fail THEN netcode_send(frame, packet, TRUE)
    ELSE client_send_loop_until_error(netcode_send(frame, packet, FALSE),
                                      packet + 1, n, fail)

\* send: for packet_byte in packet_bytes { .. }; fail: the datagram the
\* transport refuses (0: none)
RECURSIVE client_send_loop(_, _, _, _)
client_send_loop(frame, packet, n, fail) ==
    IF packet > n THEN frame
    ELSE client_send_loop(netcode_send(frame, packet, packet = fail),
                          packet + 1, n, fail)

\* the send system; an error of buffer_replication_messages or of netcode.send
\* is logged, an error of connection.send_packets is unwrapped
client_send(c, send_packets_ok, n, fail) ==
    LET buffered_c == [c EXCEPT !.frame.replication_buffered = @ + 1]
    IN  IF send_packets_ok
        THEN [buffered_c EXCEPT
                 !.frame = client_send_loop([@ EXCEPT !.packets = n], 1, n, fail)]
        ELSE [buffered_c EXCEPT !.panicked = TRUE]

\* the second half of sync_update, run whether synced or not
sync_prediction_always(c, tick_event) ==
    [c EXCEPT !.frame.prediction_updates = @ + 1,
              !.frame.tick_events = @ + (IF tick_event THEN 1 ELSE 0),
              !.frame.speed_sets = @ + 1]

\* sync_update: update_prediction_time and set_relative_speed, if synced
sync_prediction(c, tick_event) ==
    IF c.sync_manager.synced
    THEN [c EXCEPT !.frame.prediction_updates = @ + 1,
                   !.frame.tick_events = @ + (IF tick_event THEN 1 ELSE 0),
                   !.frame.speed_sets = @ + 1]
    ELSE c

\* SyncManager::update: it may complete the sync
SyncManager_update(sm, becomes_synced) ==
    [sm EXCEPT !.synced = @ \/ becomes_synced]

\* the sync_update system
sync_update(c, tick_event, becomes_synced, prediction_tick_event) ==
    sync_prediction(
        [c EXCEPT !.sync_manager = SyncManager_update(@, becomes_synced),
                  !.frame.tick_events = @ + (IF tick_event THEN 1 ELSE 0)],
        prediction_tick_event)

\* unified_sync_update that leaves out the first frame
unified_sync_update_skip_first(c) ==
    IF c.frames = 1 THEN c
    ELSE [c EXCEPT
            !.sync_manager.duration_since_latest_received_server_tick =
                @ + c.time_manager.delta,
            !.sync_manager.interpolation_time = @ + c.time_manager.delta]

\* the unified_sync_update system
unified_sync_update(c) ==
    [c EXCEPT
        !.sync_manager.duration_since_latest_received_server_tick =
            @ + c.time_manager.delta,
        !.sync_manager.interpolation_time = @ + c.time_manager.delta]

\* ---------------------------------------------------------- client actions
ClientStep(c, op, arg) ==
    /\ client' = c
    /\ last_call' = Call(op, arg)
    /\ UNCHANGED <<sender_vars, server_vars, world>>

\* ClientNetworkingPlugin::build
Build ==
    /\ ~client.built
    /\ ClientStep([build(client) EXCEPT
                       !.init_interpolation_time =
                           build(client).sync_manager.interpolation_time],
                  "build", client.config.unified)

\* a frame begins: Time<Virtual> holds its delta; in unified mode the server of
\* the same App advances the shared TimeManager
FrameStart(delta, fires) ==
    /\ client.built
    /\ ~client.panicked
    /\ client.schedule = "Last"
    /\ client.frames < MaxFrames
    /\ ClientStep([client EXCEPT
                       !.schedule = "PreUpdate",
                       !.done = {},
                       !.frames = @ + 1,
                       !.frame = Frame_new,
                       !.virtual_delta = delta,
                       !.deltas = @ + delta,
                       !.time_manager =
                           IF client.config.unified
                           THEN time_manager_update(@, delta, fires)
                           ELSE @],
                  "frame", delta)

\* the schedule has run all its systems: Main runs the next one
NextSchedule ==
    /\ client.built
    /\ ~client.panicked
    /\ client.schedule /= "Last"
    /\ \A system \in client.systems :
          ScheduleOf(system) = client.schedule => system \in client.done
    /\ ClientStep([client EXCEPT
                       !.schedule = CASE @ = "PreUpdate" -> "FixedUpdate"
                                      [] @ = "FixedUpdate" -> "PostUpdate"
                                      [] OTHER -> "Last",
                       !.done = {}],
                  "schedule", client.schedule)

\* a datagram of the server reaches the client's transport
PacketArrive(well_formed) ==
    /\ ~client.panicked
    /\ client.arrived < MaxPackets
    /\ ClientStep([client EXCEPT
                       !.netcode.incoming = Append(@, [well_formed |-> well_formed]),
                       !.arrived = @ + 1],
                  "packet", well_formed)

\* the receive system runs
Receive(fires, connected) ==
    /\ CanRun(client, "receive")
    /\ ClientStep(client_receive(Ran(client, "receive"), fires, connected),
                  "receive", connected)

\* apply_deferred runs
ApplyDeferred ==
    /\ CanRun(client, "apply_deferred")
    /\ ClientStep(Ran(client, "apply_deferred"), "apply_deferred", 0)

\* sync_update runs, or is skipped if its run condition does not hold
SyncUpdate(tick_event, becomes_synced, prediction_tick_event) ==
    /\ CanRun(client, "sync_update")
    /\ IF is_client_connected(client)
       THEN ClientStep(sync_update(Ran(client, "sync_update"), tick_event,
                                   becomes_synced, prediction_tick_event),
                       "sync_update", TRUE)
       ELSE ClientStep(Skipped(client, "sync_update"), "sync_update", FALSE)

\* unified_sync_update runs
UnifiedSyncUpdate ==
    /\ CanRun(client, "unified_sync_update")
    /\ ClientStep(unified_sync_update(Ran(client, "unified_sync_update")),
                  "unified_sync_update", TRUE)

\* the run condition of the set Send, attached by run_if, taken as always true
Send_run_always(c) == TRUE

\* the run condition of the set Send, attached by run_if
Send_run_if(c) == is_client_ready_to_send(c)

\* send runs, or is skipped if the run condition of Send does not hold
Send(send_packets_ok, n, fail) ==
    /\ CanRun(client, "send")
    /\ fail \in 0 .. n
    /\ IF Send_run_if(client)
       THEN ClientStep(client_send(Ran(client, "send"), send_packets_ok, n, fail),
                       "send", TRUE)
       ELSE ClientStep(Skipped(client, "send"), "send", FALSE)

\* ------------------------------------------- example server (client_replication)
\* the World of the example server before any client has spawned an entity
World_new ==
    [ entities      |-> EmptyMap,  \* Entity -> its PlayerId, component, Replicate
      spawned       |-> 0,         \* number of entities spawned so far
      disconnections |-> <<>>,     \* DisconnectEvents not yet read
      player_spawns |-> <<>>,      \* ComponentInsertEvent<PlayerPosition> not yet read
      cursor_spawns |-> <<>>,      \* ComponentInsertEvent<CursorPosition> not yet read
      commands      |-> <<>>,      \* Commands queued by the systems of this frame
      ran           |-> {},        \* the Update systems that ran in this frame
      handled       |-> {},        \* clients whose DisconnectEvent was read in this frame
      panicked      |-> FALSE ]

\* Replicate { replication_target, interpolation_target, ..default() }
Replicate(replication_target, interpolation_target) ==
    [replication_target |-> replication_target,
     interpolation_target |-> interpolation_target]

\* commands.entity(entity).despawn()
Despawn(entity) == [kind |-> "despawn", entity |-> entity]

\* e.insert(Replicate { .. }) for the entity of an event of client_id
Insert(entity, client_id, replicate) ==
    [kind |-> "insert", entity |-> entity, client_id |-> client_id,
     replicate |-> replicate]

\* handle_disconnections that stops at the first entity of the client
RECURSIVE despawn_first(_, _, _)
despawn_first(entities, client_id, entity) ==
    IF entity = 0 THEN <<>>
    ELSE LET first == despawn_first(entities, client_id, entity - 1)
         IN  IF first = <<>> /\ entity \in DOMAIN entities
                    /\ entities[entity].player_id = client_id
             THEN <<Despawn(entity)>>
             ELSE first

\* handle_disconnections, the inner loop: for (entity, player_id) in
\* player_entities.iter() { if player_id.0 == *client_id { despawn } }
RECURSIVE despawn_matching(_, _, _)
despawn_matching(entities, client_id, entity) ==
    IF entity = 0 THEN <<>>
    ELSE despawn_matching(entities, client_id, entity - 1)
           \o (IF entity \in DOMAIN entities
                     /\ entities[entity].player_id = client_id
               THEN <<Despawn(entity)>>
               ELSE <<>>)

\* handle_disconnections, the outer loop: for disconnection in disconnections.read()
RECURSIVE handle_disconnections_loop(_, _)
handle_disconnections_loop(w, events) ==
    IF events = <<>> THEN <<>>
    ELSE despawn_matching(w.entities, Head(events), w.spawned)
           \o handle_disconnections_loop(w, Tail(events))

\* the system handle_disconnections of the example server
example_handle_disconnections(w) ==
    [w EXCEPT !.commands = @ \o handle_disconnections_loop(w, w.disconnections),
              !.handled = @ \cup SeqRange(w.disconnections),
              !.disconnections = <<>>,
              !.ran = @ \cup {"handle_disconnections"}]

\* if let Some(mut e) = commands.get_entity(*entity) { e.insert(replicate) }
insert_if_some(entities, event, replicate) ==
    IF event.entity \in DOMAIN entities
    THEN <<Insert(event.entity, event.client_id, replicate)>>
    ELSE <<>>

\* replicate_players: for event in player_spawn_reader.read()
RECURSIVE replicate_players_loop(_, _)
replicate_players_loop(entities, events) ==
    IF events = <<>> THEN <<>>
    ELSE LET client_id == Head(events).client_id
         IN  insert_if_some(entities, Head(events),
                            Replicate(All, AllExcept(client_id)))
               \o replicate_players_loop(entities, Tail(events))

\* the system replicate_players
replicate_players(w) ==
    [w EXCEPT !.commands = @ \o replicate_players_loop(w.entities, w.player_spawns),
              !.player_spawns = <<>>,
              !.ran = @ \cup {"replicate_players"}]

\* replicate_cursors: for event in cursor_spawn_reader.read()
RECURSIVE replicate_cursors_loop(_, _)
replicate_cursors_loop(entities, events) ==
    IF events = <<>> THEN <<>>
    ELSE LET client_id == Head(events).client_id
         IN  insert_if_some(entities, Head(events),
                            Replicate(AllExcept(client_id), AllExcept(client_id)))
               \o replicate_cursors_loop(entities, Tail(events))

\* the system replicate_cursors
replicate_cursors(w) ==
    [w EXCEPT !.commands = @ \o replicate_cursors_loop(w.entities, w.cursor_spawns),
              !.cursor_spawns = <<>>,
              !.ran = @ \cup {"replicate_cursors"}]

\* the Update systems of MyServerPlugin that touch the entities
UpdateSystems == {"handle_disconnections", "replicate_cursors", "replicate_players"}

\* the queued commands are applied in order; a despawn of an entity that is gone
\* is ignored; an insert for an entity that is gone panics or is ignored
\* (insert_panics: which of the two the engine does)
RECURSIVE apply_commands(_, _, _)
apply_commands(entities, commands, insert_panics) ==
    IF commands = <<>> THEN [entities |-> entities, panicked |-> FALSE]
    ELSE LET c == Head(commands)
         IN  IF c.kind = "despawn"
             THEN apply_commands(MapRemove(entities, c.entity), Tail(commands),
                                 insert_panics)
             ELSE IF c.entity \in DOMAIN entities
             THEN apply_commands([entities EXCEPT ![c.entity].replicate =
                                                      Some(c.replicate)],
                                 Tail(commands), insert_panics)
             ELSE IF insert_panics
             THEN [entities |-> entities, panicked |-> TRUE]
             ELSE apply_commands(entities, Tail(commands), insert_panics)

\* a step of the example server
ExampleStep(w, op, arg) ==
    /\ ~world.panicked
    /\ world' = w
    /\ last_call' = Call(op, arg)
    /\ UNCHANGED <<sender_vars, server_vars, client>>

\* PreUpdate: an entity replicated by client c is spawned with PlayerId(c) and
\* the ComponentInsertEvent of its component is sent
ClientSpawn(c, component) ==
    /\ world.ran = {}
    /\ world.spawned < MaxEntities
    /\ LET entity == world.spawned + 1
           event  == [entity |-> entity, client_id |-> c]
       IN  ExampleStep(
             [world EXCEPT
                !.spawned = entity,
                !.entities = MapInsert(@, entity,
                                [player_id |-> c, component |-> component,
                                 replicate |-> None]),
                !.player_spawns = IF component = "PlayerPosition"
                                  THEN Append(@, event) ELSE @,
                !.cursor_spawns = IF component = "CursorPosition"
                                  THEN Append(@, event) ELSE @],
             "spawn", event)

\* PreUpdate: the DisconnectEvent of client c is sent
ClientLeave(c) ==
    /\ world.ran = {}
    /\ Len(world.disconnections) < MaxEvents
    /\ ExampleStep([world EXCEPT !.disconnections = Append(@, c)],
                   "disconnect", c)

\* Update: handle_disconnections runs
HandleDisconnections ==
    /\ "handle_disconnections" \notin world.ran
    /\ ExampleStep(example_handle_disconnections(world),
                   "handle_disconnections", 0)

\* Update: replicate_players runs
ReplicatePlayers ==
    /\ "replicate_players" \notin world.ran
    /\ ExampleStep(replicate_players(world), "replicate_players", 0)

\* Update: replicate_cursors runs
ReplicateCursors ==
    /\ "replicate_cursors" \notin world.ran
    /\ ExampleStep(replicate_cursors(world), "replicate_cursors", 0)

\* the end of Update: the commands of the systems are applied
ApplyCommands(insert_panics) ==
    /\ world.ran = UpdateSystems
    /\ LET r == apply_commands(world.entities, world.commands, insert_panics)
       IN  ExampleStep([world EXCEPT !.entities = r.entities,
                                     !.panicked = r.panicked,
                                     !.commands = <<>>,
                                     !.ran = {},
                                     !.handled = {}],
                       "apply_commands", 0)

ExampleNext ==
    \/ \E c \in Clients, component \in {"PlayerPosition", "CursorPosition"} :
          ClientSpawn(c, component)
    \/ \E c \in Clients : ClientLeave(c)
    \/ HandleDisconnections
    \/ ReplicatePlayers
    \/ ReplicateCursors
    \/ \E insert_panics \in BOOLEAN : ApplyCommands(insert_panics)

\* ---------------------------------------------------------- specifications
\* everything but the sender: no datagram on its way, a new Server, the App app
InitWith(packets, app) ==
    /\ now = 0
    /\ wire = <<>>
    /\ acks = {}
    /\ received_ids = {}
    /\ delivered = <<>>
    /\ buffered = 0
    /\ sent_packets = packets
    /\ user_connections = Server_new.user_connections
    /\ context = Server_new.context
    /\ netcode = [clients |-> {}]
    /\ io = [incoming |-> <<>>, sent |-> <<>>]
    /\ panicked = FALSE
    /\ arrivals = 0
    /\ queued = 0
    /\ client = app
    /\ world = World_new
    /\ last_call = Call("new", 0)

InitRest == InitWith({}, App_new(FALSE, 0))

\* a channel as the program builds it: ReliableSender::new
Init ==
    /\ \E settings \in FactorValues : sender = ReliableSender_new(settings, 0)
    /\ InitRest

\* the sender as the unit test builds it, by a struct literal
InitInternals ==
    /\ \E settings \in FactorValues, rtt \in RttValues, id \in StartIds :
          sender = [ReliableSender_new(settings, 0) EXCEPT
                        !.current_rtt_millis = rtt,
                        !.next_send_message_id = id]
    /\ InitRest

\* a channel late in a long session: every id below 2^16 - 1 has been assigned,
\* and all were acknowledged but message 0, whose only datagram was lost
InitLate ==
    /\ \E settings \in FactorValues :
          sender = [ReliableSender_new(settings, 0) EXCEPT
                        !.unacked_messages =
                            MapInsert(EmptyMap, 0,
                                UnackedMessage(MessageContainer(Some(0), 0), Some(0))),
                        !.next_send_message_id = MessageIdModulus - 1]
    /\ InitWith({0}, App_new(FALSE, 0))

Next ==
    \/ \E caller_id \in CallerIds : BufferSend(caller_id)
    \/ Collect
    \/ \E fits \in 0 .. MaxMsgs : SendPacket(fits)
    \/ \E i \in 1 .. MaxWire : Lose(i)
    \/ \E i \in 1 .. MaxWire : Deliver(i)
    \/ \E id \in AckIds : AckArrive(id)
    \/ \E id \in AckIds : AckLost(id)
    \/ Tick

NextInternals ==
    \/ \E caller_id \in CallerIds : BufferSend(caller_id)
    \/ Collect
    \/ \E fits \in 0 .. MaxMsgs : TestSendPacket(fits)
    \/ \E d \in 1 .. MaxTime : TestAdvance(d)
    \/ \E id \in AckIds : TestProcessMessageAck(id)
    \/ \E id \in AckIds : TestNotify(id)

ServerNext ==
    \/ \E c \in Clients : AuthConnect(c)
    \/ \E c \in Clients : AuthDisconnect(c)
    \/ \E try_update_ok \in BOOLEAN : Update(try_update_ok)
    \/ \E c \in Clients, well_formed \in BOOLEAN : Arrive(c, well_formed)
    \/ RecvPackets
    \/ \E c \in Clients : ServerBufferSend(c)
    \/ \E order \in Orders(DOMAIN user_connections), fail \in 0 .. MaxQueued :
          SendPackets(order, fail)

\* the application buffers messages while clients come and go
TeardownNext ==
    \/ \E c \in Clients : AuthConnect(c)
    \/ \E c \in Clients : AuthDisconnect(c)
    \/ \E try_update_ok \in BOOLEAN : Update(try_update_ok)
    \/ \E c \in Clients : ServerBufferSend(c)

\* the server as Server::new builds it, beside one idle channel
ServerInit ==
    /\ sender = ReliableSender_new(ReliableSettings(3, 2), 0)
    /\ InitRest

\* interpolation.delay of the ClientConfig, in clock units
DelayValues == {0, 3}

\* the client App before the plugin is built, beside one idle channel
ClientInit ==
    /\ sender = ReliableSender_new(ReliableSettings(3, 2), 0)
    /\ \E unified \in BOOLEAN, delay \in DelayValues :
          InitWith({}, App_new(unified, delay))

ClientNext ==
    \/ Build
    \/ \E delta \in 1 .. MaxDelta, fires \in BOOLEAN : FrameStart(delta, fires)
    \/ NextSchedule
    \/ \E well_formed \in BOOLEAN : PacketArrive(well_formed)
    \/ \E fires \in BOOLEAN, connected \in BOOLEAN : Receive(fires, connected)
    \/ ApplyDeferred
    \/ \E tick_event \in BOOLEAN, becomes_synced \in BOOLEAN,
          prediction_tick_event \in BOOLEAN :
          SyncUpdate(tick_event, becomes_synced, prediction_tick_event)
    \/ UnifiedSyncUpdate
    \/ \E send_packets_ok \in BOOLEAN, n \in 0 .. MaxPackets, fail \in 0 .. MaxPackets :
          Send(send_packets_ok, n, fail)

\* the server's connections and its replication calls
ReplicationNext ==
    \/ \E c \in Clients : AuthConnect(c)
    \/ \E c \in Clients : AuthDisconnect(c)
    \/ \E try_update_ok \in BOOLEAN : Update(try_update_ok)
    \/ \E c \in Clients, well_formed \in BOOLEAN : Arrive(c, well_formed)
    \/ RecvPackets
    \/ \E entity \in 1 .. MaxEntities, target \in Targets :
          \E order \in Orders(target_client_ids(netcode, target)) :
             EntitySpawn(entity, target, order)

Spec == Init /\ [][Next]_vars

ReplicationSpec == ServerInit /\ [][ReplicationNext]_vars

TeardownSpec == ServerInit /\ [][TeardownNext]_vars

ExampleSpec == ServerInit /\ [][ExampleNext]_vars

ClientSpec == ClientInit /\ [][ClientNext]_vars

ServerSpec == ServerInit /\ [][ServerNext]_vars

InternalsSpec == InitInternals /\ [][NextInternals]_vars

LateSpec == InitLate /\ [][Next]_vars

\* the sender is driven through collect_messages_to_send and send_packet again
\* and again, the clock advances, and a datagram (an acknowledgement) that is
\* sent again and again is not lost every time
Fairness ==
    /\ WF_vars(Collect)
    /\ WF_vars(\E fits \in 1 .. MaxMsgs : SendPacket(fits))
    /\ WF_vars(Tick)
    /\ SF_vars(\E i \in 1 .. MaxWire : Deliver(i))
    /\ SF_vars(\E id \in AckIds : AckArrive(id))

FairSpec == Init /\ [][Next]_vars /\ Fairness


\* ------------------------------------------------------------------ claims
AckOps == {"notify_message_delivered", "process_message_ack"}

\* how often payload p was delivered to the application of the peer
DeliveredCount(p) == Cardinality({i \in DOMAIN delivered : delivered[i] = p})

\* how often a message with this id stands in the queue q
Occurrences(q, id) == Cardinality({i \in DOMAIN q : q[i].id = Some(id)})

\* C1: reliable delivery: every message accepted by buffer_send is eventually
\* delivered at the receiver, and no message is delivered more than once.
C1_ReliableDelivery ==
    /\ \A p \in 1 .. MaxMsgs : (p <= buffered) ~> (DeliveredCount(p) = 1)
    /\ [](\A p \in 1 .. MaxMsgs : DeliveredCount(p) <= 1)

\* C2: a message in unacked_messages stays there, under its id, in every step
\* that is not notify_message_delivered of that id: no step removes it or puts
\* another message in its place.
C2_UnackedUntilAcked ==
    [][\A id \in DOMAIN sender.unacked_messages :
          ~(last_call'.op \in AckOps /\ last_call'.arg = id)
          => /\ id \in DOMAIN sender'.unacked_messages
             /\ sender'.unacked_messages[id].message.payload
                    = sender.unacked_messages[id].message.payload]_vars

\* collect_messages_to_send appended the message with this id in this step
QueuedNow(id) ==
    Occurrences(sender'.messages_to_send, id)
        = Occurrences(sender.messages_to_send, id) + 1

\* the time since the message was last sent
Elapsed(id) == sender.current_time - sender.unacked_messages[id].last_sent[1]

\* elapsed > rtt_resend_factor * RTT, in exact arithmetic
LongerThanFactorTimesRtt(id) ==
    LET f == sender.reliable_settings.rtt_resend_factor
    IN  Elapsed(id) * f.den > f.num * sender.current_rtt_millis * UnitsPerMilli

\* elapsed > rtt_resend_factor * RTT truncated to whole milliseconds
LongerThanWholeMillis(id) ==
    LET f == sender.reliable_settings.rtt_resend_factor
        millis == CHOOSE n \in 0 .. f.num * sender.current_rtt_millis :
                      /\ n * f.den <= f.num * sender.current_rtt_millis
                      /\ (n + 1) * f.den > f.num * sender.current_rtt_millis
    IN  Elapsed(id) > millis * UnitsPerMilli

\* C3 as stated: collect_messages_to_send queues an unacked message exactly when
\* it was never sent or was last sent more than rtt_resend_factor x RTT ago.
C3_QueuedIffNeverSentOrStale ==
    [][last_call'.op = "collect_messages_to_send"
       => \A id \in DOMAIN sender.unacked_messages :
             QueuedNow(id)
             <=> \/ sender.unacked_messages[id].last_sent = None
                 \/ LongerThanFactorTimesRtt(id)]_vars

\* C3 amended: collect_messages_to_send queues an unacked message exactly when
\* its id is not already in message_ids_to_send and it was never sent or was
\* last sent more than (rtt_resend_factor x RTT truncated to whole
\* milliseconds) ago.
C3_QueuedIffDueAndNotQueued ==
    [][last_call'.op = "collect_messages_to_send"
       => \A id \in DOMAIN sender.unacked_messages :
             QueuedNow(id)
             <=> /\ id \notin sender.message_ids_to_send
                 /\ \/ sender.unacked_messages[id].last_sent = None
                    \/ LongerThanWholeMillis(id)]_vars

\* C3 witness: collect_messages_to_send has just queued again a message that was
\* sent before, at a time when no more than rtt_resend_factor x RTT (but more
\* than its truncation to whole milliseconds) can have elapsed since.
C3_Witness ==
    /\ last_call.op = "collect_messages_to_send"
    /\ last_call.arg >= 1
    /\ sender.current_rtt_millis > 0
    /\ sender.current_time * sender.reliable_settings.rtt_resend_factor.den
          <= sender.reliable_settings.rtt_resend_factor.num
                 * sender.current_rtt_millis * UnitsPerMilli

\* C4: no two entries of messages_to_send carry the same MessageId.
C4_NoDuplicateToSend ==
    \A i, j \in DOMAIN sender.messages_to_send :
        sender.messages_to_send[i].id = sender.messages_to_send[j].id => i = j

\* C4 witness: collect_messages_to_send ran again on a message that is still
\* queued and whose resend delay has elapsed since it was queued.
C4_Witness ==
    /\ last_call.op = "collect_messages_to_send"
    /\ \E id \in sender.message_ids_to_send :
          /\ id \in DOMAIN sender.unacked_messages
          /\ sender.unacked_messages[id].last_sent /= None
          /\ should_send(sender, sender.unacked_messages[id])
          /\ Occurrences(sender.messages_to_send, id) = 1

\* C5: after an acknowledgement of id, unacked_messages has no entry for id; an
\* acknowledgement of an id that has no entry (acknowledged before, or never
\* buffered) leaves the whole sender unchanged.
C5_AckIdempotent ==
    [][last_call'.op \in AckOps
       => /\ last_call'.arg \notin DOMAIN sender'.unacked_messages
          /\ last_call'.arg \notin DOMAIN sender.unacked_messages
                => sender' = sender]_vars

\* C5 witness: the same acknowledgement was applied twice in a row while other
\* messages are unacked.
C5_Witness ==
    /\ last_call.op \in AckOps
    /\ last_call.repeat
    /\ last_call.arg < sender.next_send_message_id
    /\ DOMAIN sender.unacked_messages /= {}

\* C6: ack convergence: unacked_messages eventually becomes empty and stays
\* empty (buffer_send ceases after MaxMsgs calls at the latest).
C6_AckConvergence == <>[](DOMAIN sender.unacked_messages = {})

\* C7: after every Server::update that ran to its end, user_connections holds a
\* Connection for exactly the clients the authenticator reports as connected.
C7_ConnectionsMatchAuthenticator ==
    (last_call.op = "update" /\ last_call.arg = "Ok")
    => DOMAIN user_connections = netcode.clients

\* the datagram was handed to the message manager of its client's connection
Dispatched(d) ==
    /\ d.client \in DOMAIN user_connections'
    /\ d.payload \in SeqRange(user_connections'[d.client].received)

\* C8: in a call of recv_packets whose datagrams are all well-formed, every
\* pending datagram whose client has a connection is dispatched to that
\* connection, also when a datagram of a client without a connection is pending.
C8_UnknownSourceDropped ==
    [][(/\ last_call'.op = "recv_packets"
        /\ \A i \in DOMAIN io.incoming : io.incoming[i].well_formed)
       => \A i \in DOMAIN io.incoming :
             io.incoming[i].client \in DOMAIN user_connections
             => Dispatched(io.incoming[i])]_vars

\* C9: in a call of recv_packets whose datagrams all come from clients with a
\* connection, every well-formed pending datagram is dispatched to its
\* connection, also when a malformed datagram is pending.
C9_MalformedDropped ==
    [][(/\ last_call'.op = "recv_packets"
        /\ \A i \in DOMAIN io.incoming :
              io.incoming[i].client \in DOMAIN user_connections)
       => \A i \in DOMAIN io.incoming :
             io.incoming[i].well_formed => Dispatched(io.incoming[i])]_vars

\* the datagrams the connections hold ready when send_packets is called
ReadyToSend ==
    UNION {{Datagram(c, user_connections[c].outgoing[i]) :
               i \in DOMAIN user_connections[c].outgoing} :
           c \in DOMAIN user_connections}

\* C10: a call of send_packets keeps every connection and hands every ready
\* datagram to the transport, but for the one whose send failed.
C10_SendFailureDropsOne ==
    [][last_call'.op = "send_packets"
       => /\ DOMAIN user_connections' = DOMAIN user_connections
          /\ Cardinality({d \in ReadyToSend : d \notin SeqRange(io'.sent)}) <= 1]_vars

\* C11: no error escapes the per-frame loop: whatever datagram arrives, whatever
\* connection.send_packets returns and in whatever order clients connect and
\* disconnect, neither a system of the client nor Server::update panics.
C11_NoPanicInFrame == ~client.panicked /\ ~panicked

\* how often the spawn of entity is buffered in the connection of client_id
SpawnCount(uc, client_id, entity) ==
    IF client_id \in DOMAIN uc
    THEN Cardinality({i \in DOMAIN uc[client_id].spawns :
                         uc[client_id].spawns[i] = entity})
    ELSE 0

\* the clients a target stands for: All is every connected client, AllExcept(c)
\* every connected client but c, Only(c) is c
Resolved(target) ==
    CASE target.kind = "All" -> netcode.clients
      [] target.kind = "AllExcept" -> netcode.clients \ {target.client_id}
      [] OTHER -> {target.client_id}

\* C12: entity_spawn buffers exactly one spawn of the entity in the connection
\* of every client of the resolved target set, and none in any other.
C12_SpawnReachesTargetSet ==
    [][last_call'.op = "entity_spawn"
       => \A c \in Clients :
             SpawnCount(user_connections', c, last_call'.arg.entity)
                 = SpawnCount(user_connections, c, last_call'.arg.entity)
                   + (IF c \in Resolved(last_call'.arg.target) THEN 1 ELSE 0)]_vars

\* the place of a phase in the order Receive, ReceiveFlush, Sync, Send
PhaseRank(phase) ==
    CASE phase = "Receive" -> 1
      [] phase = "ReceiveFlush" -> 2
      [] phase = "Sync" -> 3
      [] OTHER -> 4

\* the systems that make the Sync phase
SyncSystems == {"sync_update", "unified_sync_update"}

\* C13: the phases of a frame run in the order Receive, ReceiveFlush, Sync, Send:
\* apply_deferred (ReceiveFlush) only runs once receive has run in the frame, and
\* send, when it runs, only once the Sync phase of the frame is over.
C13_PhaseOrder ==
    [][/\ \A i, j \in DOMAIN client'.frame.phases :
             i < j => PhaseRank(client'.frame.phases[i]) < PhaseRank(client'.frame.phases[j])
       /\ last_call'.op = "apply_deferred" => "receive" \in client.done
       /\ (last_call'.op = "send" /\ last_call'.arg = TRUE)
              => SyncSystems \cap client.done /= {}]_vars

\* C13 witness: a frame has run all four phases.
C13_Witness ==
    /\ client.schedule = "Last"
    /\ client.frame.phases = <<"Receive", "ReceiveFlush", "Sync", "Send">>

C15_UpdateOnlyIfConnected ==
    /\ client.frame.connection_updates > 0 => is_client_connected(client)
    /\ client.frame.connection_updates <= 1
    /\ (~client.config.unified /\ "Sync" \in SeqRange(client.frame.phases))
          => is_client_connected(client)

\* C15 witness: a frame of a client that is not connected is over: receive ran,
\* connection.update was not called and sync_update did not run.
C15_Witness ==
    /\ client.schedule = "Last"
    /\ client.frames >= 1
    /\ ~client.config.unified
    /\ ~is_client_connected(client)
    /\ "Receive" \in SeqRange(client.frame.phases)
    /\ client.frame.connection_updates = 0
    /\ "Sync" \notin SeqRange(client.frame.phases)

\* C16: a run of sync_update that leaves the sync manager not synced calls
\* neither update_prediction_time nor set_relative_speed and emits at most the
\* one TickEvent of sync_manager.update; no frame emits more than two.
C16_NoPredictionUnsynced ==
    [][/\ (/\ last_call'.op = "sync_update"
           /\ last_call'.arg = TRUE
           /\ ~client'.sync_manager.synced)
              => /\ client'.frame.prediction_updates = client.frame.prediction_updates
                 /\ client'.frame.speed_sets = client.frame.speed_sets
                 /\ client'.frame.tick_events <= 1
       /\ client'.frame.tick_events <= 2]_vars

\* C16 witness: sync_update has run while not synced, and its
\* sync_manager.update returned a TickEvent.
C16_Witness ==
    /\ last_call.op = "sync_update"
    /\ last_call.arg = TRUE
    /\ ~client.sync_manager.synced
    /\ client.frame.tick_events = 1

\* C17: in unified mode build sets synced and sets interpolation_time to
\* current_time minus the interpolation delay; sync_update is not among the
\* systems and never runs, and synced stays true.
C17_UnifiedBypassesSync ==
    [][/\ (last_call'.op = "build" /\ client.config.unified)
              => /\ client'.sync_manager.synced
                 /\ client'.sync_manager.interpolation_time
                        = client.time_manager.current_time
                              - client.config.interpolation_delay
       /\ (client'.built /\ client'.config.unified)
              => /\ client'.sync_manager.synced
                 /\ "sync_update" \notin client'.systems
                 /\ last_call'.op /= "sync_update"]_vars

\* C17 witness: two frames of a unified client are over.
C17_Witness ==
    /\ client.config.unified
    /\ client.config.interpolation_delay > 0
    /\ client.schedule = "Last"
    /\ client.frames >= 2
    /\ client.sync_manager.synced

\* C18: in unified mode, between frames, interpolation_time is the value set by
\* unified_sync_init plus the sum of the deltas of the frames run so far, and
\* duration_since_latest_received_server_tick has grown by that sum.
C18_InterpolationAdvancesEveryFrame ==
    (client.built /\ client.config.unified /\ client.schedule = "Last")
    => /\ client.sync_manager.interpolation_time
              = client.init_interpolation_time + client.deltas
       /\ client.sync_manager.duration_since_latest_received_server_tick
              = client.deltas

\* C18 witness: two frames with different deltas are over in unified mode.
C18_Witness ==
    /\ client.config.unified
    /\ client.schedule = "Last"
    /\ client.frames >= 2
    /\ client.deltas > client.frames
    /\ client.time_manager.delta = 1

PackedNow == sender.message_ids_to_send \ sender'.message_ids_to_send

\* C20: last_sent of an unacked message is set to the current time by the
\* send_packet that packs it, in the step where its id leaves
\* message_ids_to_send; collect_messages_to_send leaves last_sent of the
\* messages it queues as it was.
C20_LastSentSetOnPacking ==
    [][/\ last_call'.op = "send_packet"
              => \A id \in PackedNow \cap DOMAIN sender'.unacked_messages :
                    sender'.unacked_messages[id].last_sent = Some(sender.current_time)
       /\ last_call'.op = "collect_messages_to_send"
              => \A id \in DOMAIN sender.unacked_messages :
                    QueuedNow(id)
                    => sender'.unacked_messages[id].last_sent
                           = sender.unacked_messages[id].last_sent]_vars

\* the id the p-th buffer_send of the run assigned, counted back from
\* next_send_message_id
AssignedId(p) == wrapping_add(sender.next_send_message_id, p - 1 - buffered)

\* C21: MessageIds are assigned in steps of one modulo 2^16 from the sender's
\* first id (0 for ReliableSender::new): the p-th buffered message is kept under
\* the first id plus p - 1, each id is after the one before by signed
\* wrap-around distance, and a message queued for the wire carries its assigned
\* id, whatever id the caller's container held.
C21_IdsAssignedInSequence ==
    /\ AssignedId(1) \in StartIds
    /\ \A p \in 1 .. buffered : MessageIdLess(AssignedId(p), AssignedId(p + 1))
    /\ \A id \in DOMAIN sender.unacked_messages :
          id = AssignedId(sender.unacked_messages[id].message.payload)
    /\ \A i \in DOMAIN sender.messages_to_send :
          sender.messages_to_send[i].id
              = Some(AssignedId(sender.messages_to_send[i].payload))

\* C21 witness: the ids 65535 and 0 were assigned in this order and both
\* messages are queued for the wire.
C21_Witness ==
    /\ buffered = 2
    /\ sender.next_send_message_id = 1
    /\ Len(sender.messages_to_send) = 2
    /\ sender.messages_to_send[1].id = Some(MessageIdModulus - 1)
    /\ sender.messages_to_send[2].id = Some(0)

\* the positions collect_messages_to_send appended to messages_to_send
AppendedNow ==
    (Len(sender.messages_to_send) + 1) .. Len(sender'.messages_to_send)

\* C25: the messages one call of collect_messages_to_send appends to
\* messages_to_send stand in the order in which they were buffered (payloads
\* count the buffer_send calls), also when their ids go from 65535 to 0.
C25_CollectOldestFirst ==
    [][last_call'.op = "collect_messages_to_send"
          => \A i, j \in AppendedNow :
                i < j => sender'.messages_to_send[i].payload
                             < sender'.messages_to_send[j].payload]_vars

\* C25 witness: collect_messages_to_send ran and the queue holds the message
\* with id 65535 before the message with id 0, both stamped with the same time.
C25_Witness ==
    /\ last_call.op = "collect_messages_to_send"
    /\ Len(sender.messages_to_send) = 2
    /\ sender.messages_to_send[1] = [id |-> Some(MessageIdModulus - 1), payload |-> 1]
    /\ sender.messages_to_send[2] = [id |-> Some(0), payload |-> 2]
    /\ sender.unacked_messages[MessageIdModulus - 1].last_sent
           = sender.unacked_messages[0].last_sent

\* C26: an acknowledgement (process_message_ack or notify_message_delivered)
\* changes nothing of the sender but unacked_messages: messages_to_send,
\* message_ids_to_send and next_send_message_id stay as they are, so a message
\* that is queued stays queued after its acknowledgement.
C26_AckChangesOnlyUnacked ==
    [][last_call'.op \in AckOps
          => /\ sender'.messages_to_send = sender.messages_to_send
             /\ sender'.message_ids_to_send = sender.message_ids_to_send
             /\ sender'.next_send_message_id = sender.next_send_message_id
             /\ sender' = [sender EXCEPT
                              !.unacked_messages = sender'.unacked_messages]]_vars

\* C26 witness: the message that was just acknowledged is gone from
\* unacked_messages and stands in messages_to_send with its id still marked.
C26_Witness ==
    /\ last_call.op \in AckOps
    /\ ~last_call.repeat
    /\ last_call.arg \notin DOMAIN sender.unacked_messages
    /\ last_call.arg \in sender.message_ids_to_send
    /\ Occurrences(sender.messages_to_send, last_call.arg) = 1

\* the step is the buffer_send that assigns id to a new message
AssignsNow(id) ==
    last_call'.op = "buffer_send" /\ sender.next_send_message_id = id

\* C28 as stated: every message send_packet hands to the packet manager has an
\* id that is still in unacked_messages: none that was acknowledged and not
\* assigned again by a later buffer_send.
C28_AckedNeverPacked ==
    [][last_call'.op = "send_packet"
          => \A id \in PackedNow : id \in DOMAIN sender.unacked_messages]_vars

\* C28 amended: an acknowledgement takes the id out of unacked_messages, and
\* while an id is not in unacked_messages only the buffer_send that assigns it
\* brings it back, and no step adds a message with that id to messages_to_send.
C28_AckedNotQueuedAgain ==
    [][\A id \in AckIds :
          /\ (last_call'.op \in AckOps /\ last_call'.arg = id)
                => id \notin DOMAIN sender'.unacked_messages
          /\ (id \notin DOMAIN sender.unacked_messages /\ ~AssignsNow(id))
                => /\ id \notin DOMAIN sender'.unacked_messages
                   /\ Occurrences(sender'.messages_to_send, id)
                          <= Occurrences(sender.messages_to_send, id)]_vars

\* C28 witness: collect_messages_to_send ran while an acknowledged message was
\* still in messages_to_send and another message was unacknowledged.
C28_Witness ==
    /\ last_call.op = "collect_messages_to_send"
    /\ sender.unacked_messages /= EmptyMap
    /\ \E id \in sender.message_ids_to_send :
          /\ id \notin DOMAIN sender.unacked_messages
          /\ Occurrences(sender.messages_to_send, id) = 1

\* the MessageIds of the messages in the queue q
IdsOf(q) == {q[i].id[1] : i \in DOMAIN q}

\* C30: message_ids_to_send is exactly the set of the ids of the messages in
\* messages_to_send, so has_messages_to_send is true exactly when
\* message_ids_to_send is not empty.
C30_IdsMatchQueue ==
    /\ sender.message_ids_to_send = IdsOf(sender.messages_to_send)
    /\ has_messages_to_send(sender) <=> sender.message_ids_to_send /= {}

\* C30 witness: send_packet packed the first of two queued messages and the
\* second stays queued with its id marked.
C30_Witness ==
    /\ last_call.op = "send_packet"
    /\ last_call.arg = 1
    /\ Len(sender.messages_to_send) = 1
    /\ Cardinality(sender.message_ids_to_send) = 1
    /\ Cardinality(sent_packets) = 1

\* the messages pending on the connection of client c
Pending(uc, c) == SeqRange(uc[c].outgoing)

\* C22: Server::buffer_send returns the error exactly for a client that has no
\* Connection and then leaves user_connections and the transport as they were;
\* an update that removes a connection drops its pending messages: they are in
\* no connection afterwards, nothing is sent, and a later connection of the
\* same client starts empty.
C22_BufferSendUnknownClient ==
    [][/\ last_call'.op = "Server_buffer_send"
              => /\ last_call'.arg = "Err"
                     <=> last_call'.client_id \notin DOMAIN user_connections
                 /\ last_call'.arg = "Err"
                     => /\ user_connections' = user_connections
                        /\ io' = io
                        /\ ~panicked'
       /\ last_call'.op = "update"
              => \A c \in DOMAIN user_connections :
                    c \notin DOMAIN user_connections'
                        => /\ io' = io
                           /\ \A d \in DOMAIN user_connections' :
                                 Pending(user_connections', d)
                                     \cap Pending(user_connections, c) = {}
       /\ \A c \in DOMAIN user_connections' :
              c \notin DOMAIN user_connections
                  => user_connections'[c] = Connection_new]_vars

\* C22 witness: buffer_send for a client without a connection returned the
\* error while another client has one, and the one message accepted so far is
\* neither pending on a connection nor sent: it went with a removed connection.
C22_Witness ==
    /\ last_call.op = "Server_buffer_send"
    /\ last_call.arg = "Err"
    /\ queued = 1
    /\ io.sent = <<>>
    /\ user_connections /= EmptyMap
    /\ \A d \in DOMAIN user_connections : user_connections[d].outgoing = <<>>

\* C29: for the targets All and AllExcept every client id entity_spawn takes
\* from the authenticator's client_ids has a Connection, so these calls never
\* hit the "client not found" expectation.
C29_BroadcastSpawnFindsConnections ==
    [][(/\ last_call'.op = "entity_spawn"
        /\ last_call'.arg.target.kind \in {"All", "AllExcept"})
          => /\ target_client_ids(netcode, last_call'.arg.target)
                    \subseteq DOMAIN user_connections
             /\ ~panicked']_vars

\* the entities for which the step queued a despawn command
DespawnQueuedNow ==
    {world'.commands[i].entity :
        i \in {k \in (Len(world.commands) + 1) .. Len(world'.commands) :
                  world'.commands[k].kind = "despawn"}}

\* the entities whose PlayerId is client c
OwnedBy(entities, c) == {e \in DOMAIN entities : entities[e].player_id = c}

\* C23: for the DisconnectEvents it reads, handle_disconnections despawns every
\* entity whose PlayerId is the client of one of them and no other entity; once
\* its commands are applied no entity of such a client remains, and every
\* entity of another client is still there.
C23_DisconnectDespawnsOwned ==
    [][/\ last_call'.op = "handle_disconnections"
              => DespawnQueuedNow
                    = UNION {OwnedBy(world.entities, c) :
                                c \in SeqRange(world.disconnections)}
       /\ last_call'.op = "apply_commands"
              => \A c \in Clients :
                    IF c \in world.handled
                    THEN OwnedBy(world'.entities, c) = {}
                    ELSE OwnedBy(world'.entities, c)
                             = OwnedBy(world.entities, c)]_vars

\* C23 witness: the commands were applied, one of two spawned entities was
\* despawned and the entity of another client remains.
C23_Witness ==
    /\ last_call.op = "apply_commands"
    /\ world.spawned = 2
    /\ Cardinality(DOMAIN world.entities) = 1

\* the target sends to client c
Includes(target, c) ==
    \/ target.kind = "All"
    \/ target.kind = "AllExcept" /\ target.client_id /= c
    \/ target.kind = "Only" /\ target.client_id = c

\* C27: the Replicate component that replicate_players or replicate_cursors
\* inserts for an entity received from client c has a replication target that
\* excludes c.
C27_NotReplicatedToOwner ==
    \A i \in DOMAIN world.commands :
        world.commands[i].kind = "insert"
            => ~Includes(world.commands[i].replicate.replication_target,
                         world.commands[i].client_id)

\* C24: when the send system runs and connection.send_packets returns
\* datagrams, every one of them is handed to netcode.send; those the transport
\* refuses are logged and dropped, every other one is transported, in order,
\* and the system does not panic.
C24_SendFailureDropsOnlyThatDatagram ==
    [][(last_call'.op = "send" /\ last_call'.arg /\ client'.frame.packets > 0)
          => /\ ~client'.panicked
             /\ client'.frame.sent = client'.frame.packets
             /\ SeqRange(client'.frame.transported)
                    = (1 .. client'.frame.packets) \ client'.frame.send_errors
             /\ \A i, j \in DOMAIN client'.frame.transported :
                    i < j => client'.frame.transported[i]
                                 < client'.frame.transported[j]]_vars

\* C24 witness: the transport refused the first of two datagrams and the second
\* was transported.
C24_Witness ==
    /\ last_call.op = "send"
    /\ ~client.panicked
    /\ client.frame.packets = 2
    /\ client.frame.send_errors = {1}
    /\ client.frame.transported = <<2>>

=============================================================================
